---- MODULE Spec2Model ----
(***************************************************************************)
(* A model of the cache key-value overlay (store/cache/store.go) and of    *)
(* the root multi-store (store/rootmulti/store.go).                        *)
(*                                                                         *)
(* Byte strings are sequences of small naturals; a []byte argument is a    *)
(* record that keeps Go's distinction between the nil slice and the empty  *)
(* one.  A value is 0 (nil) or one of 1..NumVals (a non-nil byte string).  *)
(***************************************************************************)
EXTENDS Integers, Sequences, FiniteSets, TLC

\* ------------------------------------------------------------- bounds
\* How many of KeyPool's strings the overlay and its parent are exercised on.
NumKeys == 2
\* How many distinct non-nil values there are.
NumVals == 2

\* The strings keys are drawn from; in byte order "" < "\x01" < "\x01\x01" < "\x02".
KeyPool == << <<>>, <<2>>, <<1, 1>>, <<1>> >>

Min(a, b) == IF a < b THEN a ELSE b

Keys == {KeyPool[i] : i \in 1..Min(NumKeys, Len(KeyPool))}

Nil == 0

Vals == 1..NumVals

\* A []byte argument: the nil slice, or a (possibly empty) byte string.
NilKey == [isNil |-> TRUE, bytes |-> <<>>]

Bytes(s) == [isNil |-> FALSE, bytes |-> s]

KeyArgs == {NilKey} \cup {Bytes(s) : s \in Keys}

\* The threads that call one overlay.
NumThreads == 2

Threads == 1..NumThreads

\* No iterator is held.
NoIterator == [open |-> FALSE, start |-> NilKey, end |-> NilKey, ascending |-> TRUE,
               items |-> <<>>]

\* ------------------------------------------------------------- state
VARIABLES
    cache,      \* Store.cache: string -> cValue, a function on the cached strings
    parent,     \* Store.parent: the contents of the parent KVStore, string -> value
    ret,        \* what the last call on the overlay returned, or that it panicked
    iter,       \* the iterator a caller of the overlay holds, or NoIterator
    mtx,        \* Store.mtx: the thread that holds it, or 0
    pc,         \* where each thread stands in the overlay's code
    db,             \* rootmulti Store.db: s/latest and the s/<version> records
    lastCommitID,   \* rootmulti Store.lastCommitID
    pruning,        \* rootmulti Store.pruning: 0 until SetPruning is called
    storesParams,   \* rootmulti Store.storesParams: the mounted store keys
    keysByName,     \* rootmulti Store.keysByName: name -> store key
    stores,         \* rootmulti Store.stores: store key -> loaded sub-store
    rret,           \* the root's last call and what it returned
    returned        \* the commit id the last Commit on this database returned

\* What the overlay's callers hold: an iterator, the mutex, their positions.
callerVars == <<iter, mtx, pc>>

overlayVars == <<cache, parent, ret, callerVars>>

rootVars == <<db, lastCommitID, pruning, storesParams, keysByName, stores, rret, returned>>

vars == <<overlayVars, rootVars>>

\* ---------------------------------------------------- byte-string order
\* bytes.Compare(a, b) < 0, which is also the order of sort.Strings.
LexLess(a, b) ==
    \/ /\ Len(a) < Len(b)
       /\ \A i \in 1..Len(a) : a[i] = b[i]
    \/ \E i \in 1..Min(Len(a), Len(b)) :
          /\ a[i] < b[i]
          /\ \A j \in 1..(i - 1) : a[j] = b[j]

\* The strings of S in ascending byte order.
RECURSIVE SortStrings(_)
SortStrings(S) ==
    IF S = {} THEN <<>>
    ELSE LET m == CHOOSE x \in S : \A y \in S \ {x} : LexLess(x, y)
         IN  <<m>> \o SortStrings(S \ {m})

Reverse(s) == [i \in 1..Len(s) |-> s[Len(s) + 1 - i]]

\* string(key): the nil slice and the empty slice both convert to "".
string(key) == key.bytes

\* ------------------------------------------------------ the parent store
ParentGet(p, k) == p[k]

ParentSet(p, k, v) == [p EXCEPT ![k] = v]

ParentDelete(p, k) == [p EXCEPT ![k] = Nil]

\* dbm.IsKeyInDomain: start <= k < end, a nil bound being no bound.
IsKeyInDomain(k, start, end) ==
    /\ start.isNil \/ ~LexLess(k, start.bytes)
    /\ end.isNil \/ LexLess(k, end.bytes)

\* parent.Iterator / parent.ReverseIterator over [start, end).
ParentIterator(p, start, end, ascending) ==
    LET ks  == {k \in DOMAIN p : p[k] # Nil /\ IsKeyInDomain(k, start, end)}
        asc == SortStrings(ks)
        ord == IF ascending THEN asc ELSE Reverse(asc)
    IN  [i \in 1..Len(ord) |-> [Key |-> ord[i], Value |-> p[ord[i]]]]

\* ------------------------------------------------------------ overlay
EmptyCache == [k \in {} |-> 0]

NewStore == EmptyCache

cValue(value, deleted, dirty) == [value |-> value, deleted |-> deleted, dirty |-> dirty]

setCacheValue(c, k, value, deleted, dirty) ==
    [x \in DOMAIN c \cup {k} |-> IF x = k THEN cValue(value, deleted, dirty) ELSE c[x]]

\* TRUE when the key passes, FALSE when assertValidKey panics.
assertValidKey(key) == ~key.isNil

Panicked == [status |-> "panic", value |-> Nil, has |-> FALSE]

Returned(v) == [status |-> "ok", value |-> v, has |-> FALSE]

ReturnedBool(b) == [status |-> "ok", value |-> Nil, has |-> b]

\* The value Get hands back in the current state, and the cache it leaves.
GetValue(c, p, k) == IF k \in DOMAIN c THEN c[k].value ELSE ParentGet(p, k)

\* A Get that keeps no snapshot of a key the parent does not hold.
GetCachePositiveOnly(c, p, k) ==
    IF k \in DOMAIN c \/ ParentGet(p, k) = Nil THEN c
    ELSE setCacheValue(c, k, ParentGet(p, k), FALSE, FALSE)

GetCache(c, p, k) ==
    IF k \in DOMAIN c THEN c ELSE setCacheValue(c, k, ParentGet(p, k), FALSE, FALSE)

Get(key) ==
    /\ UNCHANGED <<rootVars, callerVars>>
    /\ IF ~assertValidKey(key)
       THEN /\ ret' = Panicked
            /\ UNCHANGED <<cache, parent>>
       ELSE /\ ret' = Returned(GetValue(cache, parent, string(key)))
            /\ cache' = GetCache(cache, parent, string(key))
            /\ UNCHANGED parent

Has(key) ==
    /\ UNCHANGED <<rootVars, callerVars>>
    /\ IF ~assertValidKey(key)
       THEN /\ ret' = Panicked
            /\ UNCHANGED <<cache, parent>>
       ELSE /\ ret' = ReturnedBool(GetValue(cache, parent, string(key)) # Nil)
            /\ cache' = GetCache(cache, parent, string(key))
            /\ UNCHANGED parent

\* A Set that writes through to the parent as well.
SetWriteThrough(key, value) ==
    /\ UNCHANGED <<rootVars, callerVars>>
    /\ IF ~assertValidKey(key)
       THEN /\ ret' = Panicked
            /\ UNCHANGED <<cache, parent>>
       ELSE /\ ret' = Returned(Nil)
            /\ cache' = setCacheValue(cache, string(key), value, FALSE, TRUE)
            /\ parent' = ParentSet(parent, string(key), value)

Set(key, value) ==
    /\ UNCHANGED <<rootVars, callerVars>>
    /\ IF ~assertValidKey(key)
       THEN /\ ret' = Panicked
            /\ UNCHANGED <<cache, parent>>
       ELSE /\ ret' = Returned(Nil)
            /\ cache' = setCacheValue(cache, string(key), value, FALSE, TRUE)
            /\ UNCHANGED parent

Delete(key) ==
    /\ UNCHANGED <<rootVars, callerVars>>
    /\ IF ~assertValidKey(key)
       THEN /\ ret' = Panicked
            /\ UNCHANGED <<cache, parent>>
       ELSE /\ ret' = Returned(Nil)
            /\ cache' = setCacheValue(cache, string(key), Nil, TRUE, TRUE)
            /\ UNCHANGED parent

\* The dirty keys of Write, sorted by sort.Strings.
WriteKeys(c) == SortStrings({k \in DOMAIN c : c[k].dirty})

\* One turn of Write's loop: what the parent holds after the entry is applied.
WriteOne(p, k, cv) ==
    IF cv.deleted THEN ParentDelete(p, k)
    ELSE IF cv.value = Nil THEN p
    ELSE ParentSet(p, k, cv.value)

RECURSIVE WriteLoop(_, _, _)
WriteLoop(p, keys, c) ==
    IF keys = <<>> THEN p
    ELSE WriteLoop(WriteOne(p, Head(keys), c[Head(keys)]), Tail(keys), c)

\* The calls Write makes on the parent, in the order it makes them.
WriteCall(k, cv) ==
    IF cv.deleted THEN <<[op |-> "Delete", key |-> k, value |-> Nil]>>
    ELSE IF cv.value = Nil THEN <<>>
    ELSE <<[op |-> "Set", key |-> k, value |-> cv.value]>>

RECURSIVE WriteCalls(_, _)
WriteCalls(keys, c) ==
    IF keys = <<>> THEN <<>>
    ELSE WriteCall(Head(keys), c[Head(keys)]) \o WriteCalls(Tail(keys), c)

\* A Write that drops the dirty entries and keeps the snapshots.
WriteKeepsSnapshots ==
    /\ UNCHANGED <<rootVars, callerVars>>
    /\ ret' = Returned(Nil)
    /\ parent' = WriteLoop(parent, WriteKeys(cache), cache)
    /\ cache' = [k \in {x \in DOMAIN cache : ~cache[x].dirty} |-> cache[k]]

Write ==
    /\ UNCHANGED <<rootVars, callerVars>>
    /\ ret' = Returned(Nil)
    /\ parent' = WriteLoop(parent, WriteKeys(cache), cache)
    /\ cache' = EmptyCache

\* ---------------------------------------------------------- iteration
\* dirtyItems: the dirty entries as key/value pairs, sorted in the direction.
dirtyItems(c, ascending) ==
    LET asc == SortStrings({k \in DOMAIN c : c[k].dirty})
        ord == IF ascending THEN asc ELSE Reverse(asc)
    IN  [i \in 1..Len(ord) |-> [Key |-> ord[i], Value |-> c[ord[i]].value]]

\* newMemIterator: the items whose key lies in [start, end), order kept.
RECURSIVE newMemIterator(_, _, _)
newMemIterator(start, end, items) ==
    IF items = <<>> THEN <<>>
    ELSE IF IsKeyInDomain(Head(items).Key, start, end)
         THEN <<Head(items)>> \o newMemIterator(start, end, Tail(items))
         ELSE newMemIterator(start, end, Tail(items))

\* k1 comes before k2 in the direction of the iteration.
Before(k1, k2, ascending) == IF ascending THEN LexLess(k1, k2) ELSE LexLess(k2, k1)

\* newCacheMergeIterator, read to its end: the ordered union of the parent's
\* and the cache's items; on equal keys the cache's item wins, and a cache
\* item with a nil value is skipped together with the parent's item.
RECURSIVE newCacheMergeIterator(_, _, _)
newCacheMergeIterator(P, C, ascending) ==
    IF C = <<>> THEN P
    ELSE IF P = <<>>
         THEN (IF Head(C).Value = Nil THEN <<>> ELSE <<Head(C)>>)
              \o newCacheMergeIterator(P, Tail(C), ascending)
    ELSE IF Before(Head(P).Key, Head(C).Key, ascending)
         THEN <<Head(P)>> \o newCacheMergeIterator(Tail(P), C, ascending)
    ELSE IF Head(P).Key = Head(C).Key
         THEN (IF Head(C).Value = Nil THEN <<>> ELSE <<Head(C)>>)
              \o newCacheMergeIterator(Tail(P), Tail(C), ascending)
    ELSE (IF Head(C).Value = Nil THEN <<>> ELSE <<Head(C)>>)
         \o newCacheMergeIterator(P, Tail(C), ascending)

\* Store.iterator, read to its end.
iterator(c, p, start, end, ascending) ==
    newCacheMergeIterator(ParentIterator(p, start, end, ascending),
                          newMemIterator(start, end, dirtyItems(c, ascending)),
                          ascending)

Iterator(start, end) ==
    /\ UNCHANGED <<rootVars, callerVars>>
    /\ ret' = Returned(Nil)
    /\ UNCHANGED <<cache, parent>>

ReverseIterator(start, end) ==
    /\ UNCHANGED <<rootVars, callerVars>>
    /\ ret' = Returned(Nil)
    /\ UNCHANGED <<cache, parent>>

\* The cache side of an iterator, read from a live view of the map.
IteratorItemsLive(it, c) ==
    newMemIterator(it.start, it.end, dirtyItems(c, it.ascending))

\* The cache side of an iterator: the slice dirtyItems built when the
\* iterator was made.
IteratorItems(it, c) == it.items

\* What the held iterator yields when it is read to its end.
IteratorYield(it, c, p) ==
    newCacheMergeIterator(ParentIterator(p, it.start, it.end, it.ascending),
                          IteratorItems(it, c), it.ascending)

\* Iterator / ReverseIterator called by a caller that keeps the iterator.
OpenIterator(start, end, ascending) ==
    /\ UNCHANGED <<cache, parent, mtx, pc, rootVars>>
    /\ ret' = Returned(Nil)
    /\ iter' = [open |-> TRUE, start |-> start, end |-> end, ascending |-> ascending,
                items |-> newMemIterator(start, end, dirtyItems(cache, ascending))]

\* Another holder of the parent store sets or deletes one of its keys.
ParentExternalWrite(k, v) ==
    /\ UNCHANGED <<rootVars, callerVars>>
    /\ parent' = [parent EXCEPT ![k] = v]
    /\ UNCHANGED <<cache, ret>>

\* ------------------------------------------------- threads on one overlay
\* The methods that take Store.mtx on entry and release it on return; Has
\* takes it in the Get it calls.
LockedOps == {"Get", "Has", "Set", "Delete", "Write"}

\* ci.mtx.Lock() at the head of a method: the thread waits until the mutex
\* is free, takes it and stands in the method's body.
ThreadLock(t, op) ==
    /\ pc[t] = "idle"
    /\ mtx = 0
    /\ mtx' = t
    /\ pc' = [pc EXCEPT ![t] = op]
    /\ UNCHANGED <<cache, parent, ret, iter, rootVars>>

\* The rest of the method and the deferred ci.mtx.Unlock().  A thread that
\* stands in dirtyItems while the map is written has raced with the write.
ThreadBody(t, key, value) ==
    LET op    == pc[t]
        k     == string(key)
        valid == op = "Write" \/ assertValidKey(key)
        c     == IF ~valid THEN cache
                 ELSE IF op \in {"Get", "Has"} THEN GetCache(cache, parent, k)
                 ELSE IF op = "Set" THEN setCacheValue(cache, k, value, FALSE, TRUE)
                 ELSE IF op = "Delete" THEN setCacheValue(cache, k, Nil, TRUE, TRUE)
                 ELSE EmptyCache
    IN  /\ op \in LockedOps
        /\ mtx = t
        /\ cache' = c
        /\ parent' = IF op = "Write" THEN WriteLoop(parent, WriteKeys(cache), cache)
                      ELSE parent
        /\ ret' = IF ~valid THEN Panicked
                   ELSE IF op = "Get" THEN Returned(GetValue(cache, parent, k))
                   ELSE IF op = "Has" THEN ReturnedBool(GetValue(cache, parent, k) # Nil)
                   ELSE Returned(Nil)
        /\ mtx' = 0
        /\ pc' = [u \in Threads |->
                     IF u = t THEN "idle"
                     ELSE IF pc[u] = "dirtyItems" /\ c # cache THEN "dirtyItemsRaced"
                     ELSE pc[u]]
        /\ UNCHANGED <<iter, rootVars>>

\* Iterator / ReverseIterator: the thread goes into iterator and dirtyItems,
\* which range over ci.cache, and takes no mutex.
ThreadIterator(t) ==
    /\ pc[t] = "idle"
    /\ pc' = [pc EXCEPT ![t] = "dirtyItems"]
    /\ UNCHANGED <<cache, parent, ret, iter, mtx, rootVars>>

\* dirtyItems returns.  After a race on the map the Go runtime may have
\* stopped the program or let the loop run on over whatever it saw.
ThreadIteratorReturn(t) ==
    /\ pc[t] \in {"dirtyItems", "dirtyItemsRaced"}
    /\ ret' \in (IF pc[t] = "dirtyItemsRaced" THEN {Panicked, Returned(Nil)}
                  ELSE {Returned(Nil)})
    /\ pc' = [pc EXCEPT ![t] = "idle"]
    /\ UNCHANGED <<cache, parent, iter, mtx, rootVars>>

\* ------------------------------------------------------- root multi-store
\* The versions Commit is followed up to.
MaxVersion == 2
\* How many distinct non-zero commit ids a sub-store's Commit can return.
NumHashes == 1

\* A store key: an identity and the name it carries.  Keys 1 and 3 carry the
\* same name.  The nil key is what MountStoreWithDB is handed for nil.
StoreKeys == {[id |-> 1, name |-> 1], [id |-> 2, name |-> 2], [id |-> 3, name |-> 1]}

NilStoreKey == [id |-> 0, name |-> 0]

\* A sub-store's commit id: 0 is the zero CommitID, the others are not zero.
SubIDs == 0..NumHashes

IsZero(id) == id = 0

\* The root's CommitID: a version and a hash, here the digest of the map hashed.
ZeroCommitID == [Version |-> 0, Hash |-> <<>>]

\* cdc.MarshalBinary / cdc.UnmarshalBinary: bytes that carry the type encoded
\* and decode only as that type.  NoBytes is what db.Get gives for no record.
NoBytes == [typ |-> "nil", ver |-> 0, infos |-> <<>>]

MarshalVersion(v) == [typ |-> "int64", ver |-> v, infos |-> <<>>]

MarshalCommitInfo(ci) == [typ |-> "commitInfo", ver |-> ci.Version, infos |-> ci.StoreInfos]

UnmarshalVersion(bz) == bz.ver

UnmarshalCommitInfo(bz) == [Version |-> bz.ver, StoreInfos |-> bz.infos]

Decodes(bz, typ) == bz.typ = typ

\* The keys of the root database: "s/latest" and fmt.Sprintf("s/%d", version).
EmptyDB == [latest |-> NoBytes, info |-> [v \in 1..MaxVersion |-> NoBytes]]

DBGetInfo(d, ver) == IF ver \in DOMAIN d.info THEN d.info[ver] ELSE NoBytes

\* A dbm.Batch is a sequence of Set operations; Write applies them all at once.
BatchSet(d, op) ==
    IF op.key = 0 THEN [d EXCEPT !.latest = op.value]
    ELSE [d EXCEPT !.info[op.key] = op.value]

RECURSIVE BatchWrite(_, _)
BatchWrite(d, batch) ==
    IF batch = <<>> THEN d ELSE BatchWrite(BatchSet(d, Head(batch)), Tail(batch))

getLatestVersion(d) ==
    IF d.latest = NoBytes THEN 0 ELSE UnmarshalVersion(d.latest)

\* A setLatestVersion that records the version before the one committed.
setLatestVersionPrevious(batch, version) ==
    Append(batch, [key |-> 0, value |-> MarshalVersion(version - 1)])

setLatestVersion(batch, version) ==
    Append(batch, [key |-> 0, value |-> MarshalVersion(version)])

setCommitInfo(batch, version, cInfo) ==
    Append(batch, [key |-> version, value |-> MarshalCommitInfo(cInfo)])

\* merkle.SimpleHashFromMap: a digest of the map's contents alone, here its
\* (name, leaf) pairs in the order of the names.
RECURSIVE SimpleHashFromMap(_)
SimpleHashFromMap(m) ==
    IF DOMAIN m = {} THEN <<>>
    ELSE LET n == CHOOSE x \in DOMAIN m : \A y \in DOMAIN m : x <= y
         IN  <<[name |-> n, leaf |-> m[n]]>>
                \o SimpleHashFromMap([x \in DOMAIN m \ {n} |-> m[x]])

\* storeInfo.Hash: the hash of the store's core, which is its commit id.
storeInfoHash(si) == si.Core.CommitID

\* A digest of the store infos in the order they were recorded in.
HashInOrder(ci) ==
    [i \in 1..Len(ci.StoreInfos) |->
        [name |-> ci.StoreInfos[i].Name, leaf |-> storeInfoHash(ci.StoreInfos[i])]]

\* commitInfo.Hash: the store infos are put into a map by name, a later one
\* replacing an earlier one of the same name, and the map is hashed.
Hash(ci) ==
    LET infos == ci.StoreInfos
        names == {infos[i].Name : i \in 1..Len(infos)}
        last(n) == CHOOSE i \in 1..Len(infos) :
                      /\ infos[i].Name = n
                      /\ \A j \in 1..Len(infos) : infos[j].Name = n => j <= i
    IN  SimpleHashFromMap([n \in names |-> storeInfoHash(infos[last(n)])])

CommitID(ci) == [Version |-> ci.Version, Hash |-> Hash(ci)]

\* The orders a Go map over the keys S can be ranged in.
Orders(S) ==
    {o \in [1..Cardinality(S) -> S] : \A i, j \in 1..Cardinality(S) : o[i] = o[j] => i = j}

\* A commitStores loop that records the stores of a zero commit id as well.
RECURSIVE commitStoresLoopAll(_, _)
commitStoresLoopAll(order, ids) ==
    IF order = <<>> THEN <<>>
    ELSE LET key == Head(order)
         IN  <<[Name |-> key.name, Core |-> [CommitID |-> ids[key]]]>>
             \o commitStoresLoopAll(Tail(order), ids)

\* commitStores: every store is committed, in the order the map is ranged
\* in; ids[key] is what the store's Commit returns.  A zero id is left out.
RECURSIVE commitStoresLoop(_, _)
commitStoresLoop(order, ids) ==
    IF order = <<>> THEN <<>>
    ELSE LET key == Head(order)
         IN  (IF IsZero(ids[key]) THEN <<>>
              ELSE <<[Name |-> key.name, Core |-> [CommitID |-> ids[key]]]>>)
             \o commitStoresLoop(Tail(order), ids)

commitStores(version, order, ids) ==
    [Version |-> version, StoreInfos |-> commitStoresLoop(order, ids)]

RootReturn(op, status, id, fresh) ==
    [op |-> op, status |-> status, id |-> id, fresh |-> fresh]

EmptyMap == [x \in {} |-> 0]

\* NewCommitMultiStore's fields, the database aside.
NewCommitMultiStore ==
    /\ lastCommitID' = ZeroCommitID
    /\ pruning' = 0
    /\ storesParams' = {}
    /\ keysByName' = EmptyMap
    /\ stores' = EmptyMap

\* How many pruning policies there are besides the zero value.
NumPolicies == 2

Policies == 1..NumPolicies

\* SetPruning: the root keeps the policy and hands it to every sub-store it
\* holds.
SetPruning(p) ==
    /\ pruning' = p
    /\ stores' = [key \in DOMAIN stores |-> [stores[key] EXCEPT !.pruning = p]]
    /\ rret' = RootReturn("SetPruning", "ok", ZeroCommitID, FALSE)
    /\ UNCHANGED <<db, lastCommitID, storesParams, keysByName, returned>>
    /\ UNCHANGED overlayVars

\* A MountStoreWithDB that does not look the name up.
MountStoreWithDBNoNameCheck(key) ==
    /\ IF key = NilStoreKey \/ key \in storesParams
       THEN /\ rret' = RootReturn("MountStoreWithDB", "panic", ZeroCommitID, FALSE)
            /\ UNCHANGED <<storesParams, keysByName>>
       ELSE /\ rret' = RootReturn("MountStoreWithDB", "ok", ZeroCommitID, FALSE)
            /\ storesParams' = storesParams \cup {key}
            /\ keysByName' = [n \in DOMAIN keysByName \cup {key.name} |->
                                 IF n = key.name THEN key ELSE keysByName[n]]
    /\ UNCHANGED <<db, lastCommitID, pruning, stores, returned>>
    /\ UNCHANGED overlayVars

MountStoreWithDB(key) ==
    /\ IF key = NilStoreKey \/ key \in storesParams \/ key.name \in DOMAIN keysByName
       THEN /\ rret' = RootReturn("MountStoreWithDB", "panic", ZeroCommitID, FALSE)
            /\ UNCHANGED <<storesParams, keysByName>>
       ELSE /\ rret' = RootReturn("MountStoreWithDB", "ok", ZeroCommitID, FALSE)
            /\ storesParams' = storesParams \cup {key}
            /\ keysByName' = [n \in DOMAIN keysByName \cup {key.name} |->
                                 IF n = key.name THEN key ELSE keysByName[n]]
    /\ UNCHANGED <<db, lastCommitID, pruning, stores, returned>>
    /\ UNCHANGED overlayVars

\* nameToKey: the mounted key of that name; it panics when there is none.
KnownName(name) == \E key \in storesParams : key.name = name

nameToKey(name) == CHOOSE key \in storesParams : key.name = name

\* loadCommitStoreFromParams: the sub-store loaded at id; failed says that its
\* LoadKVStoreVersion reported an error.  A sub-store's pruning is the policy
\* its SetPruning was last called with, 0 when it never was.
loadCommitStoreFromParams(id, failed, rootPruning) ==
    [id |-> id, pruning |-> IF failed THEN rootPruning ELSE 0]

\* A store that no Load or Commit of this process has touched.
Fresh == lastCommitID = ZeroCommitID /\ DOMAIN stores = {}

\* A LoadMultiStoreVersion that takes over the commit id of the record before
\* it loads the sub-stores.
LoadMultiStoreVersionEager(op, ver, failing) ==
    LET bz    == DBGetInfo(db, ver)
        cInfo == UnmarshalCommitInfo(bz)
        n     == Len(cInfo.StoreInfos)
        idOf(key) ==
            IF ver # 0 /\ \E i \in 1..n : cInfo.StoreInfos[i].Name = key.name
            THEN LET i == CHOOSE j \in 1..n :
                             /\ cInfo.StoreInfos[j].Name = key.name
                             /\ \A l \in 1..n : cInfo.StoreInfos[l].Name = key.name => l <= j
                 IN  cInfo.StoreInfos[i].Core.CommitID
            ELSE 0
    IN  /\ IF ver # 0 /\ (bz = NoBytes \/ ~Decodes(bz, "commitInfo"))
           THEN /\ rret' = RootReturn(op, "error", ZeroCommitID, Fresh)
                /\ UNCHANGED <<lastCommitID, stores>>
           ELSE IF ver # 0 /\ \E i \in 1..n : ~KnownName(cInfo.StoreInfos[i].Name)
           THEN /\ rret' = RootReturn(op, "panic", ZeroCommitID, Fresh)
                /\ UNCHANGED <<lastCommitID, stores>>
           ELSE IF failing \cap storesParams # {}
           THEN /\ rret' = RootReturn(op, "error", ZeroCommitID, Fresh)
                /\ lastCommitID' = (IF ver # 0 THEN CommitID(cInfo) ELSE ZeroCommitID)
                /\ UNCHANGED stores
           ELSE /\ rret' = RootReturn(op, "ok", ZeroCommitID, Fresh)
                /\ lastCommitID' = (IF ver # 0 THEN CommitID(cInfo) ELSE ZeroCommitID)
                /\ stores' = [key \in storesParams |->
                                 loadCommitStoreFromParams(idOf(key), FALSE, pruning)]
        /\ UNCHANGED <<db, pruning, storesParams, keysByName, returned>>
        /\ UNCHANGED overlayVars

\* LoadMultiStoreVersion: failing is the set of mounted stores whose
\* LoadKVStoreVersion reports an error.
LoadMultiStoreVersion(op, ver, failing) ==
    LET bz    == DBGetInfo(db, ver)
        cInfo == UnmarshalCommitInfo(bz)
        n     == Len(cInfo.StoreInfos)
        idOf(key) ==
            IF ver # 0 /\ \E i \in 1..n : cInfo.StoreInfos[i].Name = key.name
            THEN LET i == CHOOSE j \in 1..n :
                             /\ cInfo.StoreInfos[j].Name = key.name
                             /\ \A l \in 1..n : cInfo.StoreInfos[l].Name = key.name => l <= j
                 IN  cInfo.StoreInfos[i].Core.CommitID
            ELSE 0
    IN  /\ IF ver # 0 /\ (bz = NoBytes \/ ~Decodes(bz, "commitInfo"))
           THEN /\ rret' = RootReturn(op, "error", ZeroCommitID, Fresh)
                /\ UNCHANGED <<lastCommitID, stores>>
           ELSE IF ver # 0 /\ \E i \in 1..n : ~KnownName(cInfo.StoreInfos[i].Name)
           THEN /\ rret' = RootReturn(op, "panic", ZeroCommitID, Fresh)
                /\ UNCHANGED <<lastCommitID, stores>>
           ELSE IF failing \cap storesParams # {}
           THEN /\ rret' = RootReturn(op, "error", ZeroCommitID, Fresh)
                /\ UNCHANGED <<lastCommitID, stores>>
           ELSE /\ rret' = RootReturn(op, "ok", ZeroCommitID, Fresh)
                /\ lastCommitID' = (IF ver # 0 THEN CommitID(cInfo) ELSE ZeroCommitID)
                /\ stores' = [key \in storesParams |->
                                 loadCommitStoreFromParams(idOf(key), FALSE, pruning)]
        /\ UNCHANGED <<db, pruning, storesParams, keysByName, returned>>
        /\ UNCHANGED overlayVars

LoadVersion(ver, failing) == LoadMultiStoreVersion("LoadMultiStoreVersion", ver, failing)

LoadLatestVersion(failing) ==
    LoadMultiStoreVersion("LoadLatestVersion", getLatestVersion(db), failing)

LastCommitID == lastCommitID

\* The version Commit gives the new commit.
NextVersionFromDB == getLatestVersion(db) + 1

NextVersion == lastCommitID.Version + 1

\* The batch Commit builds.
CommitBatch(version, cInfo) ==
    setLatestVersion(setCommitInfo(<<>>, version, cInfo), version)

\* The databases a Commit that writes each record on its own can be found to
\* have left behind: s/latest first, then s/<version>.
CommitWritesUnbatched(d, version, cInfo) ==
    {d,
     BatchWrite(d, setLatestVersion(<<>>, version)),
     BatchWrite(d, CommitBatch(version, cInfo))}

\* The databases a Commit can be found to have left behind when the process
\* dies inside it: the batch is written at once or not at all.
CommitWrites(d, version, cInfo) ==
    {d, BatchWrite(d, CommitBatch(version, cInfo))}

Commit(order, ids) ==
    LET version  == NextVersion
        cInfo    == commitStores(version, order, ids)
        commitID == [Version |-> version, Hash |-> Hash(cInfo)]
    IN  /\ version <= MaxVersion
        /\ db' = BatchWrite(db, CommitBatch(version, cInfo))
        /\ lastCommitID' = commitID
        /\ stores' = [key \in DOMAIN stores |-> [stores[key] EXCEPT !.id = ids[key]]]
        /\ rret' = RootReturn("Commit", "ok", commitID, FALSE)
        /\ returned' = [known |-> TRUE, id |-> commitID, mounts |-> storesParams]
        /\ UNCHANGED <<pruning, storesParams, keysByName>>
        /\ UNCHANGED overlayVars

\* The process dies inside Commit and a new root store is made over the
\* database as the dead one left it.
CrashInCommit(order, ids) ==
    LET version == NextVersion
        cInfo   == commitStores(version, order, ids)
    IN  /\ version <= MaxVersion
        /\ db' \in CommitWrites(db, version, cInfo)
        /\ NewCommitMultiStore
        /\ rret' = RootReturn("CrashInCommit", "ok", ZeroCommitID, FALSE)
        /\ returned' = IF db' = db THEN returned
                       ELSE [known |-> FALSE, id |-> ZeroCommitID, mounts |-> {}]
        /\ UNCHANGED overlayVars

\* The process ends outside any call and a new root store is made over the
\* same database.
Restart ==
    /\ NewCommitMultiStore
    /\ rret' = RootReturn("NewCommitMultiStore", "ok", ZeroCommitID, FALSE)
    /\ UNCHANGED <<db, returned>>
    /\ UNCHANGED overlayVars

\* Bytes under s/<version> that are no commit info.
Garbage == [typ |-> "garbage", ver |-> 0, infos |-> <<>>]

\* The record s/<ver> is damaged on the disk: its bytes no longer decode.
DamageRecord(ver) ==
    /\ DBGetInfo(db, ver) # NoBytes
    /\ db' = [db EXCEPT !.info[ver] = Garbage]
    /\ UNCHANGED <<lastCommitID, pruning, storesParams, keysByName, stores, rret, returned>>
    /\ UNCHANGED overlayVars

\* ------------------------------------------------------- specifications
\* A new overlay over a parent in any state; the root store plays no part.
InitOverlay ==
    /\ cache = NewStore
    /\ parent \in [Keys -> {Nil} \cup Vals]
    /\ ret = Returned(Nil)
    /\ iter = NoIterator
    /\ mtx = 0
    /\ pc = [t \in Threads |-> "idle"]
    /\ db = EmptyDB
    /\ lastCommitID = ZeroCommitID
    /\ pruning = 0
    /\ storesParams = {}
    /\ keysByName = EmptyMap
    /\ stores = EmptyMap
    /\ rret = RootReturn("NewCommitMultiStore", "ok", ZeroCommitID, FALSE)
    /\ returned = [known |-> FALSE, id |-> ZeroCommitID, mounts |-> {}]

\* A new root store over an empty database; the overlay plays no part.
InitRoot ==
    /\ db = EmptyDB
    /\ lastCommitID = ZeroCommitID
    /\ pruning = 0
    /\ storesParams = {}
    /\ keysByName = EmptyMap
    /\ stores = EmptyMap
    /\ rret = RootReturn("NewCommitMultiStore", "ok", ZeroCommitID, FALSE)
    /\ returned = [known |-> FALSE, id |-> ZeroCommitID, mounts |-> {}]
    /\ cache = NewStore
    /\ parent = [k \in Keys |-> Nil]
    /\ ret = Returned(Nil)
    /\ iter = NoIterator
    /\ mtx = 0
    /\ pc = [t \in Threads |-> "idle"]

OverlayOp ==
    \/ \E key \in KeyArgs : Get(key)
    \/ \E key \in KeyArgs : Has(key)
    \/ \E key \in KeyArgs, value \in {Nil} \cup Vals : Set(key, value)
    \/ \E key \in KeyArgs : Delete(key)
    \/ Write
    \/ \E start \in KeyArgs, end \in KeyArgs : Iterator(start, end)
    \/ \E start \in KeyArgs, end \in KeyArgs : ReverseIterator(start, end)

\* The overlay alone on its parent.
SpecOverlay == InitOverlay /\ [][OverlayOp]_vars

NextShared ==
    \/ OverlayOp
    \/ \E k \in Keys, v \in {Nil} \cup Vals : ParentExternalWrite(k, v)

\* The overlay on a parent that others write to as well.
SpecShared == InitOverlay /\ [][NextShared]_vars

Failing == {{}} \cup {{key} : key \in StoreKeys}

\* Stores are mounted before the first load, as the root's callers do.
MountPhase(key) == Fresh /\ MountStoreWithDB(key)

NextRoot ==
    \/ \E key \in StoreKeys \cup {NilStoreKey} : MountPhase(key)
    \/ \E failing \in Failing : LoadLatestVersion(failing)
    \/ \E ver \in 0..MaxVersion, failing \in Failing : LoadVersion(ver, failing)
    \/ \E order \in Orders(DOMAIN stores), ids \in [DOMAIN stores -> SubIDs] :
          Commit(order, ids)
    \/ \E order \in Orders(DOMAIN stores), ids \in [DOMAIN stores -> SubIDs] :
          CrashInCommit(order, ids)
    \/ Restart

\* The root multi-store over its database, through the deaths of its process.
SpecRoot == InitRoot /\ [][NextRoot]_vars

\* ------------------------------------------------------ overlay claims
Directions == {TRUE, FALSE}

SetOrDelete(k) ==
    \/ \E value \in {Nil} \cup Vals : Set(Bytes(k), value)
    \/ Delete(Bytes(k))

\* C1: read-your-writes.  A step Set(k, v) leaves the overlay with
\* get(k) = v and has(k) = true, a step Delete(k) with get(k) absent, and no
\* later operation on the overlay other than a Set or Delete of k (Write
\* included) changes what get(k) returns.
C1_ReadYourWrites ==
    [][\A k \in Keys :
          /\ \A v \in {Nil} \cup Vals :
                Set(Bytes(k), v) =>
                   /\ GetValue(cache', parent', k) = v
                   /\ GetValue(cache', parent', k) # Nil
          /\ Delete(Bytes(k)) => GetValue(cache', parent', k) = Nil
          /\ (OverlayOp /\ ~SetOrDelete(k)) =>
                GetValue(cache', parent', k) = GetValue(cache, parent, k)
      ]_vars

\* What holds of the code in place of C1: the same, for the values that are
\* not nil and the overlays that hold no pending write of a nil value.
NoNilWrite(c) == \A k \in DOMAIN c : c[k].dirty /\ ~c[k].deleted => c[k].value # Nil

ReadYourWritesNonNil ==
    [][\A k \in Keys :
          /\ \A v \in Vals :
                Set(Bytes(k), v) =>
                   /\ GetValue(cache', parent', k) = v
                   /\ GetValue(cache', parent', k) # Nil
          /\ Delete(Bytes(k)) => GetValue(cache', parent', k) = Nil
          /\ (OverlayOp /\ ~SetOrDelete(k) /\ NoNilWrite(cache)) =>
                GetValue(cache', parent', k) = GetValue(cache, parent, k)
      ]_vars

\* C2: a step of the overlay that is not a Write leaves the parent's contents
\* as they were (the same map, so the same items over every range); only
\* Write changes the parent.
C2_OnlyWriteMutatesParent == [][parent' = parent \/ Write]_vars

\* C2's case: the overlay holds a pending write and a tombstone that the
\* parent has not seen.
C2_Witness ==
    /\ \E k \in DOMAIN cache :
          cache[k].dirty /\ ~cache[k].deleted /\ cache[k].value # Nil
             /\ parent[k] # cache[k].value
    /\ \E k \in DOMAIN cache : cache[k].deleted /\ parent[k] # Nil

\* C3: over every range, iterating the parent right after Write yields what
\* iterating the overlay yielded right before it.
C3_FlushCorrectness ==
    [][Write =>
          \A start \in KeyArgs, end \in KeyArgs, asc \in Directions :
             ParentIterator(parent', start, end, asc)
                = iterator(cache, parent, start, end, asc)
      ]_vars

\* What holds of the code in place of C3: the same, of an overlay that holds
\* no pending write of a nil value.
FlushCorrectnessNonNil ==
    [][(Write /\ NoNilWrite(cache)) =>
          \A start \in KeyArgs, end \in KeyArgs, asc \in Directions :
             ParentIterator(parent', start, end, asc)
                = iterator(cache, parent, start, end, asc)
      ]_vars

Pair(k, v) == [Key |-> k, Value |-> v]

Items(out) == {out[i] : i \in 1..Len(out)}

\* C4: over every range and in either direction the overlay's iteration is
\* strictly ordered in the direction; a tombstoned key is not in it, a key
\* with a pending write is in it with the overlay's value, any other key of
\* the range that the parent holds is in it with the parent's value, and
\* nothing else is in it.
C4_MergedIteration ==
    \A start \in KeyArgs, end \in KeyArgs, asc \in Directions :
       LET out   == iterator(cache, parent, start, end, asc)
           dirty == {k \in DOMAIN cache : cache[k].dirty}
       IN  /\ \A i \in 1..(Len(out) - 1) : Before(out[i].Key, out[i + 1].Key, asc)
           /\ \A k \in Keys :
                 IF ~IsKeyInDomain(k, start, end)
                    THEN \A v \in {Nil} \cup Vals : Pair(k, v) \notin Items(out)
                 ELSE IF k \in dirty /\ cache[k].deleted
                    THEN \A v \in {Nil} \cup Vals : Pair(k, v) \notin Items(out)
                 ELSE IF k \in dirty
                    THEN /\ Pair(k, cache[k].value) \in Items(out)
                         /\ \A v \in {Nil} \cup Vals :
                               Pair(k, v) \in Items(out) => v = cache[k].value
                 ELSE \A v \in {Nil} \cup Vals :
                         Pair(k, v) \in Items(out) <=> (v # Nil /\ v = parent[k])

\* What holds of the code in place of C4: a pending write of a nil value
\* hides the key as a tombstone does; the rest is as C4 has it.
MergedIterationNilHides ==
    \A start \in KeyArgs, end \in KeyArgs, asc \in Directions :
       LET out   == iterator(cache, parent, start, end, asc)
           dirty == {k \in DOMAIN cache : cache[k].dirty}
       IN  /\ \A i \in 1..(Len(out) - 1) : Before(out[i].Key, out[i + 1].Key, asc)
           /\ \A k \in Keys :
                 IF ~IsKeyInDomain(k, start, end)
                    THEN \A v \in {Nil} \cup Vals : Pair(k, v) \notin Items(out)
                 ELSE IF k \in dirty /\ (cache[k].deleted \/ cache[k].value = Nil)
                    THEN \A v \in {Nil} \cup Vals : Pair(k, v) \notin Items(out)
                 ELSE IF k \in dirty
                    THEN /\ Pair(k, cache[k].value) \in Items(out)
                         /\ \A v \in {Nil} \cup Vals :
                               Pair(k, v) \in Items(out) => v = cache[k].value
                 ELSE \A v \in {Nil} \cup Vals :
                         Pair(k, v) \in Items(out) <=> (v # Nil /\ v = parent[k])

\* C5: the first Get of a key the overlay holds no entry for returns what the
\* parent holds and keeps it as a clean entry, absence included; while the
\* entry is clean every Get of the key returns the kept value, and no step
\* other than a Set or Delete of the key or a Write, a write to the parent
\* by another holder included, changes the entry.
C5_ReadThroughSnapshot ==
    [][\A k \in Keys :
          IF k \notin DOMAIN cache
          THEN Get(Bytes(k)) =>
                  /\ ret' = Returned(parent[k])
                  /\ k \in DOMAIN cache'
                  /\ cache'[k] = cValue(parent[k], FALSE, FALSE)
          ELSE cache[k].dirty
               \/ /\ Get(Bytes(k)) => ret' = Returned(cache[k].value)
                  /\ \/ /\ k \in DOMAIN cache'
                        /\ cache'[k] = cache[k]
                        /\ GetValue(cache', parent', k) = GetValue(cache, parent, k)
                     \/ Write
                     \/ SetOrDelete(k)
      ]_vars

\* C5's case: the overlay answered absent from its snapshot although the
\* parent has been given the key since, and holds a snapshot of a value the
\* parent has dropped since.
C5_Witness ==
    /\ \E k \in DOMAIN cache :
          ~cache[k].dirty /\ cache[k].value = Nil /\ parent[k] # Nil
             /\ ret = Returned(Nil)
    /\ \E k \in DOMAIN cache :
          ~cache[k].dirty /\ cache[k].value # Nil /\ parent[k] # cache[k].value

\* C10: Get, Has, Set and Delete called with the nil key or with the empty
\* key panic and change neither the overlay's map nor the parent.
C10_KeyValidation ==
    [][\A key \in {NilKey, Bytes(<<>>)} :
          (\/ Get(key)
           \/ Has(key)
           \/ Delete(key)
           \/ \E value \in {Nil} \cup Vals : Set(key, value)) =>
             /\ ret' = Panicked
             /\ cache' = cache
             /\ parent' = parent
      ]_vars

\* What holds of the code in place of C10: the nil key alone is rejected.
NilKeyRejected ==
    [][(\/ Get(NilKey)
        \/ Has(NilKey)
        \/ Delete(NilKey)
        \/ \E value \in {Nil} \cup Vals : Set(NilKey, value)) =>
          /\ ret' = Panicked
          /\ cache' = cache
          /\ parent' = parent
      ]_vars

\* The root store over a database whose records can be damaged.
NextDamaged ==
    \/ NextRoot
    \/ \E ver \in 1..MaxVersion : DamageRecord(ver)

SpecDamaged == InitRoot /\ [][NextDamaged]_vars

\* A new overlay over an empty parent.
InitEmptyParent ==
    /\ cache = NewStore
    /\ parent = [k \in Keys |-> Nil]
    /\ ret = Returned(Nil)
    /\ iter = NoIterator
    /\ mtx = 0
    /\ pc = [t \in Threads |-> "idle"]
    /\ db = EmptyDB
    /\ lastCommitID = ZeroCommitID
    /\ pruning = 0
    /\ storesParams = {}
    /\ keysByName = EmptyMap
    /\ stores = EmptyMap
    /\ rret = RootReturn("NewCommitMultiStore", "ok", ZeroCommitID, FALSE)
    /\ returned = [known |-> FALSE, id |-> ZeroCommitID, mounts |-> {}]

\* The overlay alone on a parent that starts empty.
SpecFromEmpty == InitEmptyParent /\ [][OverlayOp]_vars

NextIter ==
    \/ \E key \in KeyArgs : Get(key)
    \/ \E key \in KeyArgs, value \in {Nil} \cup Vals : Set(key, value)
    \/ \E key \in KeyArgs : Delete(key)
    \/ Write
    \/ \E start \in KeyArgs, end \in KeyArgs, ascending \in {TRUE, FALSE} :
          OpenIterator(start, end, ascending)

\* The overlay and a caller that holds on to an iterator.
SpecIter == InitEmptyParent /\ [][NextIter]_vars

NextThreads ==
    \/ \E t \in Threads, op \in LockedOps : ThreadLock(t, op)
    \/ \E t \in Threads, key \in KeyArgs, value \in {Nil} \cup Vals :
          ThreadBody(t, key, value)
    \/ \E t \in Threads : ThreadIterator(t)
    \/ \E t \in Threads : ThreadIteratorReturn(t)

\* Several threads calling one overlay.
SpecThreads == InitEmptyParent /\ [][NextThreads]_vars

\* One root store from its making on: mounts, loads and commits, and no
\* death of the process.
NextOneStore ==
    \/ \E key \in StoreKeys \cup {NilStoreKey} : MountPhase(key)
    \/ \E failing \in Failing : LoadLatestVersion(failing)
    \/ \E ver \in 0..MaxVersion, failing \in Failing : LoadVersion(ver, failing)
    \/ \E order \in Orders(DOMAIN stores), ids \in [DOMAIN stores -> SubIDs] :
          Commit(order, ids)

SpecOneStore == InitRoot /\ [][NextOneStore]_vars

\* One root store whose pruning policy is set at any time.
NextPruning ==
    \/ NextOneStore
    \/ \E p \in Policies : SetPruning(p)

SpecPruning == InitRoot /\ [][NextPruning]_vars

\* --------------------------------------------------- root store claims
CommitArgs == {[order |-> o, ids |-> i] :
                  o \in Orders(DOMAIN stores), i \in [DOMAIN stores -> SubIDs]}

\* C6: every Commit returns the version after the last commit id's, so 1, 2,
\* 3, ... from version 0, and leaves the last commit id equal to what it
\* returned.
C6_CommitMonotonic ==
    [][\A a \in CommitArgs :
          Commit(a.order, a.ids) =>
             /\ rret'.id.Version = LastCommitID.Version + 1
             /\ rret'.id.Version >= 1
             /\ LastCommitID' = rret'.id
      ]_vars

\* C6's case: a second Commit in a row has returned version 2.
C6_Witness ==
    /\ rret.op = "Commit"
    /\ rret.id.Version = 2
    /\ lastCommitID = rret.id
    /\ returned.known /\ returned.id = rret.id

\* C7: once Commit has returned (v, h), LoadLatestVersion on a new root store
\* over the same database and with the same stores mounted leaves the last
\* commit id at (v, h), every sub-store loading; a sub-store's own load
\* error is the one thing that fails the load, and it leaves the new store
\* as it was.
C7_Durability ==
    [][\A failing \in Failing :
          (/\ Fresh
           /\ returned.known
           /\ storesParams = returned.mounts
           /\ LoadLatestVersion(failing)) =>
             IF failing \cap storesParams = {}
             THEN rret'.status = "ok" /\ lastCommitID' = returned.id
             ELSE rret'.status = "error" /\ lastCommitID' = lastCommitID
      ]_vars

\* C7's case: a new root store has loaded the latest version and holds the
\* commit id, of a hash over a sub-store, that the last Commit returned.
C7_Witness ==
    /\ rret.op = "LoadLatestVersion"
    /\ rret.fresh
    /\ rret.status = "ok"
    /\ returned.known
    /\ storesParams = returned.mounts
    /\ lastCommitID = returned.id
    /\ lastCommitID.Version >= 1
    /\ lastCommitID.Hash # <<>>

\* C8: whenever s/latest holds a version v > 0, after a process died inside
\* Commit as well, the record s/<v> is there and is the commit info of v.
C8_LatestHasCommitInfo ==
    LET v == getLatestVersion(db)
    IN  v > 0 =>
           /\ DBGetInfo(db, v) # NoBytes
           /\ Decodes(DBGetInfo(db, v), "commitInfo")
           /\ UnmarshalCommitInfo(DBGetInfo(db, v)).Version = v

\* C8's case: the process died inside Commit after the batch was written.
C8_Witness ==
    /\ rret.op = "CrashInCommit"
    /\ ~returned.known
    /\ getLatestVersion(db) >= 1
    /\ lastCommitID = ZeroCommitID

\* The (name, commit id) pairs of the stores whose commit id is not zero.
Pairs(ids) == {[name |-> key.name, leaf |-> ids[key]] : key \in {x \in DOMAIN ids : ~IsZero(ids[x])}}

\* The pairs in the order of their names.
RECURSIVE PairsDigest(_)
PairsDigest(S) ==
    IF S = {} THEN <<>>
    ELSE LET m == CHOOSE x \in S : \A y \in S : x.name <= y.name
         IN  <<m>> \o PairsDigest(S \ {m})

\* C9: the hash Commit returns is the digest of the set of (name, commit id)
\* pairs of the sub-stores whose commit id is not zero, and it is the hash
\* of the commit info of every other order the stores could have been
\* committed in, at any version.
C9_RootDeterminism ==
    [][\A a \in CommitArgs :
          Commit(a.order, a.ids) =>
             /\ rret'.id.Hash = PairsDigest(Pairs(a.ids))
             /\ \A o \in Orders(DOMAIN stores), v \in 1..MaxVersion :
                   Hash(commitStores(v, o, a.ids)) = rret'.id.Hash
      ]_vars

\* C9's case: a Commit recorded two sub-stores against the order of their
\* names and returned a hash over both.
C9_Witness ==
    /\ rret.op = "Commit"
    /\ Len(rret.id.Hash) = 2
    /\ LET ci == UnmarshalCommitInfo(DBGetInfo(db, rret.id.Version))
       IN  /\ Len(ci.StoreInfos) = 2
           /\ ci.StoreInfos[1].Name > ci.StoreInfos[2].Name

\* The call is LoadMultiStoreVersion(ver), made directly or by
\* LoadLatestVersion.
LoadCall(ver, failing) ==
    \/ LoadVersion(ver, failing)
    \/ ver = getLatestVersion(db) /\ LoadLatestVersion(failing)

\* C11: a load of version ver that finds s/<ver> absent or not decoding, or
\* that has a sub-store report an error, does not succeed; a load that does
\* not succeed leaves the loaded sub-stores and the last commit id as they
\* were; a load that succeeds replaces both, the sub-stores by one per
\* mounted key and the last commit id by that of the record.
C11_FailedLoadLeavesRoot ==
    [][\A ver \in 0..MaxVersion, failing \in Failing :
          LoadCall(ver, failing) =>
             LET bz     == DBGetInfo(db, ver)
                 failed == \/ ver # 0 /\ bz = NoBytes
                           \/ ver # 0 /\ ~Decodes(bz, "commitInfo")
                           \/ failing \cap storesParams # {}
             IN  /\ failed => rret'.status # "ok"
                 /\ rret'.status # "ok" =>
                       stores' = stores /\ lastCommitID' = lastCommitID
                 /\ rret'.status = "ok" =>
                       /\ DOMAIN stores' = storesParams
                       /\ lastCommitID' = IF ver = 0 THEN ZeroCommitID
                                          ELSE CommitID(UnmarshalCommitInfo(bz))
      ]_vars

\* C11's case: a root store with sub-stores loaded at a version has had
\* LoadLatestVersion fail on a record that does not decode.
C11_Witness ==
    /\ rret.op = "LoadLatestVersion"
    /\ rret.status = "error"
    /\ DBGetInfo(db, getLatestVersion(db)) = Garbage
    /\ DOMAIN stores # {}
    /\ lastCommitID.Version >= 1

\* The name index holds the names of the mounted keys, each name under the
\* one mounted key that carries it.
NameIndexOK ==
    /\ DOMAIN keysByName = {key.name : key \in storesParams}
    /\ \A n \in DOMAIN keysByName :
          keysByName[n] \in storesParams /\ keysByName[n].name = n
    /\ \A k1 \in storesParams, k2 \in storesParams : k1.name = k2.name => k1 = k2

\* C12: MountStoreWithDB panics and changes nothing for the nil key, for a
\* key that is mounted and for a key whose name a mounted key carries, and
\* mounts any other key; after every step the name index maps each mounted
\* name to one mounted key and no two mounted keys share a name.
C12_MountConflicts ==
    [][/\ \A key \in StoreKeys \cup {NilStoreKey} :
             MountStoreWithDB(key) =>
                IF \/ key = NilStoreKey
                   \/ key \in storesParams
                   \/ \E k \in storesParams : k.name = key.name
                THEN /\ rret'.status = "panic"
                     /\ storesParams' = storesParams
                     /\ keysByName' = keysByName
                     /\ stores' = stores
                ELSE /\ rret'.status = "ok"
                     /\ storesParams' = storesParams \cup {key}
                     /\ keysByName'[key.name] = key
       /\ NameIndexOK'
      ]_vars

\* C12's case: with two stores mounted, one under each name, a further
\* mount has been rejected.
C12_Witness ==
    /\ rret.op = "MountStoreWithDB"
    /\ rret.status = "panic"
    /\ Cardinality(storesParams) = 2
    /\ DOMAIN keysByName = {key.name : key \in StoreKeys}

\* ------------------------------------------------- more overlay claims
\* The parent after the calls are made on it one after the other.
RECURSIVE ApplyCalls(_, _)
ApplyCalls(p, calls) ==
    IF calls = <<>> THEN p
    ELSE ApplyCalls(IF Head(calls).op = "Delete"
                       THEN ParentDelete(p, Head(calls).key)
                       ELSE ParentSet(p, Head(calls).key, Head(calls).value),
                    Tail(calls))

\* The calls are one per dirty key of c and none for another key, strictly
\* ascending by key, a Delete for a tombstone and a Set of the value for a
\* pending write.
OnePerDirtyKeyInOrder(calls, c) ==
    LET dirty == {k \in DOMAIN c : c[k].dirty}
    IN  /\ Len(calls) = Cardinality(dirty)
        /\ \A k \in dirty : \E i \in 1..Len(calls) : calls[i].key = k
        /\ \A i \in 1..Len(calls) : calls[i].key \in dirty
        /\ \A i \in 1..(Len(calls) - 1) : LexLess(calls[i].key, calls[i + 1].key)
        /\ \A i \in 1..Len(calls) :
              IF c[calls[i].key].deleted
              THEN calls[i].op = "Delete"
              ELSE calls[i].op = "Set" /\ calls[i].value = c[calls[i].key].value

\* C13: the calls a Write makes on the parent, which take the parent to the
\* state Write leaves it in, are one per dirty key and none for a clean
\* one, in strictly ascending key order, Delete for a tombstone and Set of
\* the value for a pending write.
C13_FlushOrder ==
    [][Write =>
          LET calls == WriteCalls(WriteKeys(cache), cache)
          IN  /\ parent' = ApplyCalls(parent, calls)
              /\ OnePerDirtyKeyInOrder(calls, cache)
      ]_vars

\* What holds of the code in place of C13: the same, of an overlay that
\* holds no pending write of a nil value.
FlushOrderNonNil ==
    [][(Write /\ NoNilWrite(cache)) =>
          LET calls == WriteCalls(WriteKeys(cache), cache)
          IN  /\ parent' = ApplyCalls(parent, calls)
              /\ OnePerDirtyKeyInOrder(calls, cache)
      ]_vars

\* Every Write makes the calls of WriteCalls, a nil pending write or not.
WriteMakesItsCalls ==
    [][Write => parent' = ApplyCalls(parent, WriteCalls(WriteKeys(cache), cache))]_vars

\* The entry is a snapshot, a pending write of a value, or a tombstone.
ShapeOK(cv) ==
    \/ ~cv.dirty /\ ~cv.deleted
    \/ cv.dirty /\ ~cv.deleted /\ cv.value # Nil
    \/ cv.dirty /\ cv.deleted

\* C14: a Set of a nil value is rejected and leaves the overlay's map as it
\* was, and after every step every entry of the map is a snapshot (not
\* dirty, not deleted), a pending write (dirty, not deleted, a value
\* present) or a tombstone (dirty, deleted).
C14_EntryShapes ==
    [][/\ \A key \in KeyArgs :
             Set(key, Nil) => ret' = Panicked /\ cache' = cache
       /\ \A k \in DOMAIN cache' : ShapeOK(cache'[k])
      ]_vars

\* What holds of the code in place of C14: a deleted entry is dirty and
\* holds no value, and a clean entry is not deleted.
EntryShapesButNilWrite ==
    \A k \in DOMAIN cache :
       /\ cache[k].deleted => cache[k].dirty /\ cache[k].value = Nil
       /\ ~cache[k].dirty => ~cache[k].deleted

\* C15: a thread that stands in the body of a method of the overlay (Get,
\* Has, Set, Delete, Write, Iterator, ReverseIterator) holds the mutex, so
\* no thread reads the map while another stands in Set, Delete or Write.
C15_MutualExclusion ==
    /\ \A t \in Threads : pc[t] # "idle" => mtx = t
    /\ \A t \in Threads, u \in Threads :
          ~(pc[t] \in {"dirtyItems", "dirtyItemsRaced"}
               /\ pc[u] \in {"Set", "Delete", "Write"})

\* C15's case: a thread stood in dirtyItems, reading the map, while another
\* thread changed the map under the mutex.
C15_Race == \E t \in Threads : pc[t] = "dirtyItemsRaced" /\ mtx # t

\* What holds of the code in place of C15: the methods that lock exclude
\* one another.
LockedOpsExclusive ==
    /\ \A t \in Threads : pc[t] \in LockedOps => mtx = t
    /\ \A t \in Threads, u \in Threads :
          (pc[t] \in LockedOps /\ pc[u] \in LockedOps) => t = u

\* C16: once s/<v> holds a record, no load and no commit changes the bytes
\* under s/<v>.
C16_CommitInfoImmutable ==
    [][\A v \in 1..MaxVersion :
          DBGetInfo(db, v) # NoBytes => DBGetInfo(db', v) = DBGetInfo(db, v)
      ]_vars

\* What holds of the code in place of C16: a load writes nothing, and a
\* Commit writes the record of the version after the store's last commit id
\* and no other, whether that record was there or not.
OnlyNextRecordWritten ==
    [][/\ \A ver \in 0..MaxVersion, failing \in Failing :
             LoadCall(ver, failing) => db' = db
       /\ \A v \in 1..MaxVersion :
             v # lastCommitID.Version + 1 => DBGetInfo(db', v) = DBGetInfo(db, v)
      ]_vars

\* C17: when a policy has been set on the root, every sub-store the root
\* holds has had SetPruning called with that policy, whether the policy was
\* set before the load that made the sub-stores or after it.
C17_PruningPropagation ==
    pruning # 0 => \A key \in DOMAIN stores : stores[key].pruning = pruning

\* What holds of the code in place of C17: SetPruning reaches the sub-stores
\* the root holds when it is called, and a successful load makes sub-stores
\* that no policy was handed to.
PruningOnlyAfterLoad ==
    [][/\ \A p \in Policies :
             SetPruning(p) =>
                pruning' = p /\ \A key \in DOMAIN stores' : stores'[key].pruning = p
       /\ \A ver \in 0..MaxVersion, failing \in Failing :
             (LoadCall(ver, failing) /\ rret'.status = "ok") =>
                \A key \in DOMAIN stores' : stores'[key].pruning = 0
      ]_vars

\* C18: a Write leaves the overlay's map without any entry, dirty or clean,
\* and a Get of any key on an overlay without entries returns what the
\* parent holds for the key.
C18_WriteEmptiesOverlay ==
    [][/\ Write =>
             /\ DOMAIN cache' = {}
             /\ \A k \in Keys : GetValue(cache', parent', k) = ParentGet(parent', k)
       /\ \A k \in Keys :
             (DOMAIN cache = {} /\ Get(Bytes(k))) => ret' = Returned(ParentGet(parent, k))
      ]_vars

\* C18's case: a Write has flushed a value to the parent, which started
\* empty, and the overlay holds no entry.
C18_Witness ==
    /\ DOMAIN cache = {}
    /\ \E k \in Keys : parent[k] # Nil
    /\ ret = Returned(Nil)

\* C19: the cache side of an iterator is, when the iterator is made (a step
\* OpenIterator, of the range and direction the iterator then has), the
\* dirty entries of its range in its direction; a Set or Delete on the
\* overlay afterwards changes neither the cache side of the iterator held
\* nor what that iterator yields.
C19_IteratorSnapshot ==
    [][/\ OpenIterator(iter'.start, iter'.end, iter'.ascending) =>
             /\ iter'.open
             /\ IteratorItems(iter', cache')
                   = newMemIterator(iter'.start, iter'.end,
                                    dirtyItems(cache, iter'.ascending))
       /\ (iter.open /\ \E k \in Keys : SetOrDelete(k)) =>
             /\ iter'.open
             /\ IteratorItems(iter', cache') = IteratorItems(iter, cache)
             /\ IteratorYield(iter', cache', parent') = IteratorYield(iter, cache, parent)
      ]_vars

\* C19's case: an iterator is held over a range with a dirty entry in it,
\* and since it was made a Set or Delete has left the overlay with a dirty
\* entry of the range that the iterator does not have.
C19_Witness ==
    /\ iter.open
    /\ iter.items # <<>>
    /\ \E k \in DOMAIN cache :
          /\ cache[k].dirty
          /\ IsKeyInDomain(k, iter.start, iter.end)
          /\ \A i \in 1..Len(iter.items) :
                iter.items[i] # Pair(k, cache[k].value)

\* The store infos of the record under s/<ver> that carry the name.
InfosOfName(d, ver, name) ==
    LET ci == UnmarshalCommitInfo(DBGetInfo(d, ver))
    IN  {i \in 1..Len(ci.StoreInfos) : ci.StoreInfos[i].Name = name}

\* The commit id the record under s/<ver> holds for the name, zero if none.
RecordedID(d, ver, name) ==
    LET ci == UnmarshalCommitInfo(DBGetInfo(d, ver))
    IN  IF InfosOfName(d, ver, name) = {} THEN 0
        ELSE ci.StoreInfos[CHOOSE i \in InfosOfName(d, ver, name) : TRUE].Core.CommitID

\* C20: a Commit that produces version v records under s/<v>, for each
\* sub-store, the commit id the sub-store returned, in one store info of
\* its name, and no store info for a sub-store that returned the zero id;
\* a successful load of version v loads each mounted sub-store at the id
\* the record under s/<v> holds for its name, the zero id if it holds none;
\* a successful load of version 0 loads every sub-store at the zero id.
C20_CommitLoadRoundTrip ==
    [][/\ \A a \in CommitArgs :
             Commit(a.order, a.ids) =>
                \A key \in DOMAIN stores :
                   /\ RecordedID(db', rret'.id.Version, key.name) = a.ids[key]
                   /\ Cardinality(InfosOfName(db', rret'.id.Version, key.name))
                         = IF IsZero(a.ids[key]) THEN 0 ELSE 1
       /\ \A ver \in 0..MaxVersion, failing \in Failing :
             (LoadCall(ver, failing) /\ rret'.status = "ok") =>
                /\ DOMAIN stores' = storesParams
                /\ \A key \in storesParams :
                      stores'[key].id = IF ver = 0 THEN 0
                                        ELSE RecordedID(db, ver, key.name)
      ]_vars

\* C20's case: a new root store has loaded the version the last Commit
\* produced, one sub-store at a commit id that is not zero and another, which
\* the record does not name, at the zero id.
C20_Witness ==
    /\ rret.op \in {"LoadLatestVersion", "LoadMultiStoreVersion"}
    /\ rret.status = "ok"
    /\ rret.fresh
    /\ returned.known
    /\ returned.id = lastCommitID
    /\ lastCommitID.Version >= 1
    /\ \E k1 \in DOMAIN stores, k2 \in DOMAIN stores :
          /\ stores[k1].id # 0
          /\ stores[k2].id = 0
          /\ InfosOfName(db, lastCommitID.Version, k2.name) = {}

====
